---- MODULE Spec2Model ----
(***************************************************************************)
(* A model of the movie recommender: the offline feature builder and       *)
(* vectorizer fit (train_recommender.py), the serving-time artifact load   *)
(* and get_recommendations (recommender_utils.py), and the chat session    *)
(* that consumes it (app.py).                                              *)
(*                                                                         *)
(* Text is modelled by TLA+ strings; lower(), strip(), substring search,   *)
(* the year regex and the tokenizer are computed character by character.   *)
(* Row ids are 0-based as in the source; row id i is movies[i + 1].        *)
(* TF-IDF weights are fixed-point integers (quarter units) and cosine      *)
(* similarities are compared exactly by cross-multiplying their squares.   *)
(***************************************************************************)
EXTENDS Integers, Sequences, FiniteSets, TLC

VARIABLES
    movies_pkl,     \* models/movies.pkl: the catalog artifact (rows in order)
    tfidf_pkl,      \* models/tfidf.pkl: the fitted vectorizer artifact
    files_ok,       \* both artifact files exist and unpickle
    phase,          \* "start" | "serving" | "failed" (module import of recommender_utils)
    movies,         \* recommender_utils.movies (after reset_index)
    tfidf,          \* recommender_utils.tfidf
    indices,        \* recommender_utils.indices: lowercased title -> row ids
    tfidf_matrix,   \* recommender_utils.tfidf_matrix: one vector per row
    call,           \* arguments of the latest get_recommendations call
    result,         \* DataFrame returned by the latest get_recommendations call
    probe,          \* history: the first call of the run, its result, and whether
                    \* a call with other arguments has run since
    step,           \* st.session_state.step
    answers,        \* st.session_state.answers
    last_recs,      \* st.session_state.last_recs
    chat_history,   \* st.session_state.chat_history
    user_input      \* the text the chat input handler received last

engine_vars == <<movies_pkl, tfidf_pkl, files_ok, phase, movies, tfidf, indices, tfidf_matrix>>
lookup_vars == <<call, result, probe>>
session_vars == <<step, answers, last_recs, chat_history, user_input>>
vars == <<engine_vars, lookup_vars, session_vars>>

(***************************************************************************)
(* Bounds                                                                  *)
(***************************************************************************)
MaxRows == 3        \* largest catalog drawn in Init
MaxHistory == 15    \* chat_history stops growing at this length

(***************************************************************************)
(* Strings                                                                 *)
(***************************************************************************)
LowerAlphabet == "abcdefghijklmnopqrstuvwxyz"
Digits == "0123456789"

CharAt(s, i) == SubSeq(s, i, i)

IndexIn(c, alphabet) ==
    IF \E i \in 1..Len(alphabet) : CharAt(alphabet, i) = c
    THEN CHOOSE i \in 1..Len(alphabet) : CharAt(alphabet, i) = c
    ELSE 0

UpperLetters ==
    {"A", "B", "C", "D", "E", "F", "G", "H", "I", "J", "K", "L", "M",
      "N", "O", "P", "Q", "R", "S", "T", "U", "V", "W", "X", "Y", "Z"}

\* str.lower() on one character
LowerChar(c) ==
    IF c \notin UpperLetters THEN c
    ELSE CASE c = "A" -> "a" []
              c = "B" -> "b" []
              c = "C" -> "c" []
              c = "D" -> "d" []
              c = "E" -> "e" []
              c = "F" -> "f" []
              c = "G" -> "g" []
              c = "H" -> "h" []
              c = "I" -> "i" []
              c = "J" -> "j" []
              c = "K" -> "k" []
              c = "L" -> "l" []
              c = "M" -> "m" []
              c = "N" -> "n" []
              c = "O" -> "o" []
              c = "P" -> "p" []
              c = "Q" -> "q" []
              c = "R" -> "r" []
              c = "S" -> "s" []
              c = "T" -> "t" []
              c = "U" -> "u" []
              c = "V" -> "v" []
              c = "W" -> "w" []
              c = "X" -> "x" []
              c = "Y" -> "y" []
              c = "Z" -> "z"

RECURSIVE Lower(_)
Lower(s) == IF s = "" THEN "" ELSE LowerChar(CharAt(s, 1)) \o Lower(Tail(s))

\* Python's `kw in text` for strings
Contains(text, kw) ==
    \E i \in 1..(Len(text) - Len(kw) + 1) : SubSeq(text, i, i + Len(kw) - 1) = kw

IsDigit(c) == IndexIn(c, Digits) > 0

\* the regex \(\d{4}\) matches at position i of s
YearAt(s, i) ==
    /\ i + 5 <= Len(s)
    /\ CharAt(s, i) = "("
    /\ \A k \in 1..4 : IsDigit(CharAt(s, i + k))
    /\ CharAt(s, i + 5) = ")"

(***************************************************************************)
(* Feature builder and vectorizer fit (train_recommender.py)               *)
(***************************************************************************)
RECURSIVE ReplaceChar(_, _, _)
ReplaceChar(s, old, new) ==
    IF s = "" THEN ""
    ELSE (IF CharAt(s, 1) = old THEN new ELSE CharAt(s, 1)) \o ReplaceChar(Tail(s), old, new)

CleanGenres(genres) == ReplaceChar(genres, "|", " ")

RECURSIVE RemoveYears(_)
RemoveYears(s) ==
    IF s = "" THEN ""
    ELSE IF YearAt(s, 1) THEN RemoveYears(SubSeq(s, 7, Len(s)))
    ELSE CharAt(s, 1) \o RemoveYears(Tail(s))

CleanTitle(title) == Lower(RemoveYears(title))

CombinedFeatures(title, genres) == CleanTitle(title) \o " " \o CleanGenres(genres)

\* the words of sklearn's English stop list that occur in the modelled titles
StopWords == {"the", "it", "of", "and", "to", "in"}

IsWordChar(c) == IndexIn(c, LowerAlphabet) > 0 \/ IsDigit(c) \/ c = "_"

\* token_pattern (?u)\b\w\w+\b, then stop-word removal
FlushToken(cur, acc) ==
    IF Len(cur) >= 2 /\ cur \notin StopWords THEN Append(acc, cur) ELSE acc

RECURSIVE Scan(_, _, _)
Scan(s, cur, acc) ==
    IF s = "" THEN FlushToken(cur, acc)
    ELSE IF IsWordChar(CharAt(s, 1)) THEN Scan(Tail(s), cur \o CharAt(s, 1), acc)
    ELSE Scan(Tail(s), "", FlushToken(cur, acc))

Tokenize(text) == Scan(Lower(text), "", <<>>)

TokenSet(text) == {Tokenize(text)[i] : i \in 1..Len(Tokenize(text))}

Count(text, t) == Cardinality({i \in 1..Len(Tokenize(text)) : Tokenize(text)[i] = t})

\* smooth idf  ln((1 + n) / (1 + df)) + 1  in quarter units, IdfTable[n][df]
IdfTable ==
    << <<4>>,
       <<6, 4>>,
       <<7, 5, 4>>,
       <<8, 6, 5, 4>>,
       <<8, 7, 6, 5, 4>>,
       <<9, 7, 6, 5, 5, 4>>,
       <<10, 8, 7, 6, 5, 5, 4>>,
       <<10, 8, 7, 6, 6, 5, 4, 4>>,
       <<10, 9, 8, 7, 6, 5, 5, 4, 4>> >>

\* TfidfVectorizer(stop_words='english').fit over the feature texts `docs`
Fit(docs) ==
    LET vocabulary == UNION {TokenSet(docs[i]) : i \in 1..Len(docs)}
        df(t) == Cardinality({i \in 1..Len(docs) : t \in TokenSet(docs[i])})
    IN  [idf |-> [t \in vocabulary |-> IdfTable[Len(docs)][df(t)]],
         fit_rows |-> Len(docs)]

\* tfidf.transform of one feature text: a sparse vector, tf * idf on the
\* tokens of the text that are in the vocabulary; other tokens are ignored
Transform(vectorizer, text) ==
    [t \in TokenSet(text) \cap DOMAIN vectorizer.idf |-> Count(text, t) * vectorizer.idf[t]]

\* one row of movies.pkl as train_recommender.py writes it
CatalogRow(raw) ==
    [title |-> raw.title, genres |-> raw.genres,
     combined_features |-> CombinedFeatures(raw.title, raw.genres)]

(***************************************************************************)
(* Serving: artifact load and get_recommendations (recommender_utils.py)   *)
(***************************************************************************)
\* indices = pd.Series(movies.index, index=movies["title"].str.lower()):
\* a label maps to the row ids carrying it, in row order
RECURSIVE IdsOf(_, _, _)
IdsOf(rows, label, i) ==
    IF i > Len(rows) THEN <<>>
    ELSE (IF Lower(rows[i].title) = label THEN <<i - 1>> ELSE <<>>) \o IdsOf(rows, label, i + 1)

BuildIndices(rows) ==
    [label \in {Lower(rows[i].title) : i \in 1..Len(rows)} |-> IdsOf(rows, label, 1)]

BuildMatrix(vectorizer, rows) ==
    [i \in 1..Len(rows) |-> Transform(vectorizer, rows[i].combined_features)]

\* dot product of two sparse vectors
Dot(u, v) ==
    LET RECURSIVE Sum(_)
        Sum(S) == IF S = {} THEN 0
                  ELSE LET t == CHOOSE x \in S : TRUE IN u[t] * v[t] + Sum(S \ {t})
    IN  Sum(DOMAIN u \cap DOMAIN v)

\* cosine_similarity(tfidf_matrix[idx], tfidf_matrix)[0]: entry i is
\* Dot(q, r) / (|q| |r|), and 0 when either vector is zero.  The scores of
\* one query are kept as the fraction num / den of their squares, the common
\* factor |q|^2 dropped, so that they compare exactly.
CosineSimilarity(q) ==
    [i \in 1..Len(tfidf_matrix) |->
        LET d == Dot(tfidf_matrix[q + 1], tfidf_matrix[i])
            norm2 == Dot(tfidf_matrix[i], tfidf_matrix[i])
        IN  [num |-> d * d, den |-> IF norm2 = 0 THEN 1 ELSE norm2]]

\* mutant: a comparison that also holds on equal scores, which makes the
\* sort put a later row ahead of an earlier row of the same score
ScoreGreaterOrEqual(a, b) == a.num * b.den >= b.num * a.den

ScoreGreater(a, b) == a.num * b.den > b.num * a.den

ScoreEqual(a, b) == a.num * b.den = b.num * a.den

\* list(enumerate(sim_scores)): pairs <<row id, score>>
Enumerate(sim_scores) == [i \in 1..Len(sim_scores) |-> <<i - 1, sim_scores[i]>>]

\* sorted(..., key=lambda x: x[1], reverse=True): stable, so pairs of equal
\* score keep their enumeration order.  InsertDesc puts x behind every pair
\* that does not score below it.
RECURSIVE InsertDesc(_, _)
InsertDesc(sorted, x) ==
    IF sorted = <<>> THEN <<x>>
    ELSE IF ScoreGreater(x[2], Head(sorted)[2]) THEN <<x>> \o sorted
    ELSE <<Head(sorted)>> \o InsertDesc(Tail(sorted), x)

RECURSIVE SortedFrom(_, _, _)
SortedFrom(pairs, sorted, i) ==
    IF i > Len(pairs) THEN sorted
    ELSE SortedFrom(pairs, InsertDesc(sorted, pairs[i]), i + 1)

SortedDesc(pairs) == SortedFrom(pairs, <<>>, 1)

\* Python's seq[start:stop] for start >= 0
PySlice(seq, start, stop) ==
    LET len == Len(seq)
        hi == IF stop < 0 THEN (IF stop + len < 0 THEN 0 ELSE stop + len)
              ELSE (IF stop > len THEN len ELSE stop)
        lo == IF start > len THEN len ELSE start
    IN  SubSeq(seq, lo + 1, hi)

\* movies.iloc[movie_indices][["title", "genres"]]; a row keeps its index label
Frame(movie_indices) ==
    [k \in 1..Len(movie_indices) |->
        [id |-> movie_indices[k], title |-> movies[movie_indices[k] + 1].title,
         genres |-> movies[movie_indices[k] + 1].genres]]

\* mutant: the slice keeps the first pair
TopNNoSkip(sim_scores, n) == PySlice(sim_scores, 0, n)

\* line 44: skip the first pair and take the next n
TopN(sim_scores, n) == PySlice(sim_scores, 1, n + 1)

\* lines 34-47, for a title found in indices.  idx holds every row id that
\* carries the label; cosine_similarity(...)[0] is the row of the first.
Neighbours(idx, n) ==
    LET sim_scores == SortedDesc(Enumerate(CosineSimilarity(Head(idx))))
        sliced == TopN(sim_scores, n)
        movie_indices == [k \in 1..Len(sliced) |-> sliced[k][1]]
    IN  Frame(movie_indices)

\* mutant: a title that is not found falls back to row 0
get_recommendations_fallback(movie_title, n) ==
    LET title == Lower(movie_title)
    IN  IF title \notin DOMAIN indices THEN Neighbours(<<0>>, n)
        ELSE Neighbours(indices[title], n)

\* mutant: the previous result is kept and served again when n repeats
get_recommendations_cached(movie_title, n) ==
    LET title == Lower(movie_title)
    IN  IF call.made /\ call.n = n THEN result
        ELSE IF title \notin DOMAIN indices THEN <<>>
        ELSE Neighbours(indices[title], n)

get_recommendations(movie_title, n) ==
    LET title == Lower(movie_title)
    IN  IF title \notin DOMAIN indices THEN <<>>
        ELSE Neighbours(indices[title], n)

\* the row whose vector get_recommendations uses as the query
QueryRow(movie_title) == Head(indices[Lower(movie_title)])

Resolves(movie_title) == Lower(movie_title) \in DOMAIN indices

(***************************************************************************)
(* Chat helpers (app.py)                                                   *)
(***************************************************************************)
IsSpace(c) == c = " "

RECURSIVE LStrip(_)
LStrip(s) == IF s # "" /\ IsSpace(CharAt(s, 1)) THEN LStrip(Tail(s)) ELSE s

RECURSIVE RStrip(_)
RStrip(s) ==
    IF s # "" /\ IsSpace(CharAt(s, Len(s))) THEN RStrip(SubSeq(s, 1, Len(s) - 1)) ELSE s

\* str.strip()
Strip(s) == RStrip(LStrip(s))

\* str.split(sep) for a one-character separator
RECURSIVE SplitFrom(_, _, _)
SplitFrom(s, sep, cur) ==
    IF s = "" THEN <<cur>>
    ELSE IF CharAt(s, 1) = sep THEN <<cur>> \o SplitFrom(Tail(s), sep, "")
    ELSE SplitFrom(Tail(s), sep, cur \o CharAt(s, 1))

Split(s, sep) == SplitFrom(s, sep, "")

ContainsAny(text, words) == \E w \in words : Contains(text, w)

genre_map ==
    { <<"action", "Action">>, <<"adventure", "Adventure">>, <<"animation", "Animation">>,
      <<"cartoon", "Animation">>, <<"comedy", "Comedy">>, <<"funny", "Comedy">>,
      <<"crime", "Crime">>, <<"drama", "Drama">>, <<"emotional", "Drama">>,
      <<"fantasy", "Fantasy">>, <<"horror", "Horror">>, <<"scary", "Horror">>,
      <<"mystery", "Mystery">>, <<"romance", "Romance">>, <<"romantic", "Romance">>,
      <<"love", "Romance">>, <<"sci-fi", "Sci-Fi">>, <<"science fiction", "Sci-Fi">>,
      <<"thriller", "Thriller">>, <<"suspense", "Thriller">>, <<"family", "Children">>,
      <<"kids", "Children">> }

extract_genre_preferences(mood_text, genre_text) ==
    LET text == Lower(mood_text \o " " \o genre_text)
    IN  {pair[2] : pair \in {p \in genre_map : Contains(text, p[1])}}

extract_pace_preferences(pace_text) ==
    LET t == Lower(pace_text)
    IN  IF ContainsAny(t, {"slow", "calm", "relax", "deep", "thoughtful"})
        THEN {"Drama", "Romance"}
        ELSE IF ContainsAny(t, {"fast", "intense", "thrill", "edge", "exciting"})
        THEN {"Action", "Thriller", "Adventure", "Sci-Fi"}
        ELSE {"Drama", "Comedy"}

parse_period(period_text) ==
    LET t == Lower(period_text)
    IN  IF ContainsAny(t, {"recent", "new", "latest", "modern", "after 2010"}) THEN "recent"
        ELSE IF ContainsAny(t, {"2000", "2000s"}) THEN "2000s"
        ELSE IF ContainsAny(t, {"90s", "1990"}) THEN "90s"
        ELSE IF ContainsAny(t, {"80s", "70s", "60s", "old", "classic", "older"}) THEN "classic"
        ELSE "None"

parse_tone(tone_text) ==
    LET t == Lower(tone_text)
    IN  IF ContainsAny(t, {"light", "family", "kids", "wholesome", "feel good", "happy"})
        THEN "light"
        ELSE IF ContainsAny(t, {"dark", "serious", "intense", "violent", "gritty", "heavy"})
        THEN "dark"
        ELSE "None"

\* the list without its later repetitions, order kept
RECURSIVE Unique(_, _)
Unique(seq, acc) ==
    IF seq = <<>> THEN acc
    ELSE Unique(Tail(seq),
                IF \E k \in 1..Len(acc) : acc[k] = Head(seq) THEN acc ELSE Append(acc, Head(seq)))

\* mutant: the titles are taken from the clean_title column
TitlesClean(rows) == [k \in 1..Len(rows) |-> CleanTitle(rows[k].title)]

\* rows["title"].tolist()
Titles(rows) == [k \in 1..Len(rows) |-> rows[k].title]

RECURSIVE MatchesOfParts(_, _)
MatchesOfParts(parts, i) ==
    IF i > Len(parts) THEN <<>>
    ELSE LET name == Lower(Strip(parts[i]))
             hit(row) == Contains(Lower(row.title), name)
         IN  (IF Strip(parts[i]) = "" THEN <<>> ELSE Titles(SelectSeq(movies, hit)))
             \o MatchesOfParts(parts, i + 1)

find_liked_movies(liked_text) ==
    LET text == Strip(liked_text)
    IN  IF text = "" \/ Lower(text) = "skip" THEN <<>>
        ELSE Unique(MatchesOfParts(Split(text, ","), 1), <<>>)

\* the titles pick_seed_movie_from_chat may return: random.choice over the
\* liked matches, else one sampled row of the genre candidates
SeedTitles(mood_text, genre_text, pace_text, liked_text) ==
    LET liked_matches == find_liked_movies(liked_text)
        target_genres == extract_genre_preferences(mood_text, genre_text)
                            \cup extract_pace_preferences(pace_text)
        match_any(row) == \E g \in target_genres : Contains(row.genres, g)
        all_rows(row) == TRUE
        matching == Titles(SelectSeq(movies, match_any))
        candidates == IF target_genres = {} \/ matching = <<>>
                      THEN Titles(SelectSeq(movies, all_rows))
                      ELSE matching
    IN  IF liked_matches # <<>>
        THEN {liked_matches[k] : k \in 1..Len(liked_matches)}
        ELSE {candidates[k] : k \in 1..Len(candidates)}

DigitValue(c) == IndexIn(c, Digits) - 1

NaN == -1

\* str.extract(r"\((\d{4})\)") and pd.to_numeric(errors="coerce"): the first
\* parenthesised four-digit number of the title, NaN without one
RECURSIVE YearFrom(_, _)
YearFrom(title, i) ==
    IF i + 5 > Len(title) THEN NaN
    ELSE IF YearAt(title, i)
    THEN 1000 * DigitValue(CharAt(title, i + 1)) + 100 * DigitValue(CharAt(title, i + 2))
            + 10 * DigitValue(CharAt(title, i + 3)) + DigitValue(CharAt(title, i + 4))
    ELSE YearFrom(title, i + 1)

\* a DataFrame is its sequence of rows; the filtered frame has a year column
filter_recommendations_by_period_and_tone(recs, period_text, tone_text) ==
    IF recs = <<>> THEN recs
    ELSE
    LET with_year == [k \in 1..Len(recs) |->
                        [id |-> recs[k].id, title |-> recs[k].title,
                         genres |-> recs[k].genres, year |-> YearFrom(recs[k].title, 1)]]
        period_label == parse_period(period_text)
        tone_label == parse_tone(tone_text)
        in_period(row) ==
            CASE period_label = "recent" -> row.year # NaN /\ row.year >= 2010
              [] period_label = "2000s" -> row.year # NaN /\ row.year >= 2000 /\ row.year < 2010
              [] period_label = "90s" -> row.year # NaN /\ row.year >= 1990 /\ row.year < 2000
              [] period_label = "classic" -> row.year # NaN /\ row.year < 1990
              [] OTHER -> TRUE
        in_tone(row) ==
            CASE tone_label = "light" ->
                    \E lg \in {"Animation", "Children", "Comedy", "Family"} : Contains(row.genres, lg)
              [] tone_label = "dark" ->
                    \E dg \in {"Drama", "Thriller", "Horror", "Crime"} : Contains(row.genres, dg)
              [] OTHER -> TRUE
    IN  SelectSeq(SelectSeq(with_year, in_period), in_tone)

\* DataFrame.iloc[a:b]
ILoc(rows, a, b) == PySlice(rows, a, b)

SeedPool == 25      \* n of the get_recommendations call
Shown == 6          \* rows kept in last_recs

\* mutant: no fallback to the unfiltered frame
SelectRecsNoFallback(raw_recs, filtered_recs) == ILoc(filtered_recs, 0, Shown)

\* lines 437-441: the rows kept as last_recs
SelectRecs(raw_recs, filtered_recs) ==
    IF filtered_recs = <<>> THEN ILoc(raw_recs, 0, Shown) ELSE ILoc(filtered_recs, 0, Shown)

(***************************************************************************)
(* Inputs                                                                  *)
(***************************************************************************)
Pool ==
    { [title |-> "Heat (1995)", genres |-> "Crime|Thriller"],
      [title |-> "Heat (1972)", genres |-> "Crime|Thriller"],
      [title |-> "Toy Story (1995)", genres |-> "Comedy|Crime"],
      [title |-> "The Toy (1982)", genres |-> "Comedy"] }

Catalogs == UNION {[1..len -> Pool] : len \in 1..MaxRows}

QueryTitles == {"HEAT (1995)", "Heat (1972)"}

QueryCounts == {-2, 0, 1, MaxRows}

NoCall == [made |-> FALSE, title |-> "", n |-> 0]
NoProbe == [made |-> FALSE, title |-> "", n |-> 0, result |-> <<>>, others |-> FALSE]
None == [none |-> TRUE, rows |-> <<>>]

EmptyAnswers ==
    [mood |-> "", genre |-> "", pace |-> "", liked |-> "", period |-> "", tone |-> ""]

SessionInit ==
    /\ step = 1
    /\ answers = EmptyAnswers
    /\ last_recs = None
    /\ chat_history = <<[role |-> "assistant", content |-> "greeting: 1 mood?"]>>
    /\ user_input = ""

Init ==
    /\ \E raw \in Catalogs, stale \in 0..(MaxRows - 1) :
          \* train_recommender.py wrote tfidf.pkl when the catalog ended
          \* `stale` rows earlier than the movies.pkl that is loaded with it
          /\ stale < Len(raw)
          /\ movies_pkl = [i \in 1..Len(raw) |-> CatalogRow(raw[i])]
          /\ tfidf_pkl = Fit([i \in 1..(Len(raw) - stale) |-> CatalogRow(raw[i]).combined_features])
    /\ files_ok \in BOOLEAN
    /\ phase = "start"
    /\ movies = <<>>
    /\ tfidf = [idf |-> <<>>, fit_rows |-> 0]
    /\ indices = <<>>
    /\ tfidf_matrix = <<>>
    /\ call = NoCall
    /\ result = <<>>
    /\ probe = NoProbe
    /\ SessionInit

\* lines 9-22, run once when the module is imported
Load ==
    /\ phase = "start"
    /\ files_ok
    /\ phase' = "serving"
    /\ movies' = movies_pkl
    /\ tfidf' = tfidf_pkl
    /\ indices' = BuildIndices(movies_pkl)
    /\ tfidf_matrix' = BuildMatrix(tfidf_pkl, movies_pkl)
    /\ UNCHANGED <<movies_pkl, tfidf_pkl, files_ok, lookup_vars, session_vars>>

\* open() or pickle.load raises: the import fails
LoadFails ==
    /\ phase = "start"
    /\ ~files_ok
    /\ phase' = "failed"
    /\ UNCHANGED <<movies_pkl, tfidf_pkl, files_ok, movies, tfidf, indices, tfidf_matrix,
                   lookup_vars, session_vars>>

\* a caller invokes get_recommendations(movie_title, n)
Lookup ==
    /\ phase = "serving"
    /\ \E movie_title \in QueryTitles, n \in QueryCounts :
          LET recs == get_recommendations(movie_title, n)
          IN  /\ call' = [made |-> TRUE, title |-> movie_title, n |-> n]
              /\ result' = recs
              /\ probe' = IF ~probe.made
                          THEN [made |-> TRUE, title |-> movie_title, n |-> n,
                                result |-> recs, others |-> FALSE]
                          ELSE IF movie_title = probe.title /\ n = probe.n THEN probe
                          ELSE [probe EXCEPT !.others = TRUE]
    /\ UNCHANGED <<engine_vars, session_vars>>

Next == Load \/ LoadFails \/ Lookup

Spec == Init /\ [][Next]_vars

(***************************************************************************)
(* The chat session (app.py)                                               *)
(***************************************************************************)
ChatCatalogs ==
    { << [title |-> "Heat (1995)", genres |-> "Action|Crime|Thriller"],
         [title |-> "Toy Story (1995)", genres |-> "Animation|Children|Comedy"],
         [title |-> "Jumanji (1995)", genres |-> "Adventure|Children|Fantasy"],
         [title |-> "Heat (1972)", genres |-> "Action|Crime|Thriller"],
         [title |-> "Casino (1995)", genres |-> "Crime"],
         [title |-> "Alien (1979)", genres |-> "Horror|Sci-Fi"],
         [title |-> "Arrival (2016)", genres |-> "Sci-Fi"],
         [title |-> "Se7en (1995)", genres |-> "Mystery|Thriller"] >>,
      << [title |-> "Toy Story (1995)", genres |-> "Animation|Children|Comedy"] >> }

ChatInputs == {"restart", " More ", "Heat, recent", "dark comedy"}

\* mutant: the third and fourth answers are stored under each other's key
AnswerKeysSwapped == <<"mood", "genre", "liked", "pace", "period", "tone">>

\* lines 366-418: the answer stored by step k
AnswerKeys == <<"mood", "genre", "pace", "liked", "period", "tone">>

Assistant(content) == [role |-> "assistant", content |-> content]
User(content) == [role |-> "user", content |-> content]

\* the question asked after the answer of step k, k in 1..5
Question(k) ==
    CASE k = 1 -> "2 genres?" [] k = 2 -> "3 pace?" [] k = 3 -> "4 liked movies?"
      [] k = 4 -> "5 era?" [] k = 5 -> "6 tone?"

RecommendMessage(row) == "recommend: " \o row.title \o " / " \o row.genres

RECURSIVE Lines(_)
Lines(rows) ==
    IF rows = <<>> THEN "" ELSE " - " \o Head(rows).title \o " / " \o Head(rows).genres \o Lines(Tail(rows))

ChatInit ==
    /\ \E raw \in ChatCatalogs :
          /\ movies_pkl = [i \in 1..Len(raw) |-> CatalogRow(raw[i])]
          /\ tfidf_pkl = Fit([i \in 1..Len(raw) |-> CatalogRow(raw[i]).combined_features])
    /\ files_ok = TRUE
    /\ phase = "start"
    /\ movies = <<>>
    /\ tfidf = [idf |-> <<>>, fit_rows |-> 0]
    /\ indices = <<>>
    /\ tfidf_matrix = <<>>
    /\ call = NoCall
    /\ result = <<>>
    /\ probe = NoProbe
    /\ SessionInit

\* lines 361-364: the run of the script that receives `text`
Received(text) ==
    /\ phase = "serving"
    /\ user_input' = text
    \* bound of the model: past step 6 the history grows only up to MaxHistory
    /\ step >= 7 /\ Lower(Strip(text)) # "restart" => Len(chat_history) + 2 <= MaxHistory

\* lines 367-414: steps 1 to 5 store the answer and ask the next question
Answer(text) ==
    /\ Received(text)
    /\ step \in 1..5
    /\ answers' = [answers EXCEPT ![AnswerKeys[step]] = text]
    /\ step' = step + 1
    /\ chat_history' = chat_history \o <<User(text), Assistant(Question(step))>>
    /\ UNCHANGED <<last_recs, engine_vars, lookup_vars>>

\* lines 417-459: step 6 stores the tone, picks a seed and recommends
Recommend(text) ==
    /\ Received(text)
    /\ step = 6
    /\ answers' = [answers EXCEPT !.tone = text]
    /\ step' = 7
    /\ \E seed_title \in SeedTitles(answers.mood, answers.genre, answers.pace, answers.liked) :
          LET raw_recs == get_recommendations(seed_title, SeedPool)
              filtered_recs == filter_recommendations_by_period_and_tone(raw_recs, answers.period, text)
              recs == SelectRecs(raw_recs, filtered_recs)
          IN  /\ call' = [made |-> TRUE, title |-> seed_title, n |-> SeedPool]
              /\ result' = raw_recs
              /\ last_recs' = [none |-> FALSE, rows |-> recs]
              /\ chat_history' = chat_history \o
                    <<User(text),
                      Assistant(IF recs = <<>> THEN "nothing found" ELSE RecommendMessage(recs[1]))>>
    /\ UNCHANGED <<probe, engine_vars>>

\* lines 465-482
Restart(text) ==
    /\ Received(text)
    /\ step >= 7
    /\ Lower(Strip(text)) = "restart"
    /\ chat_history' = <<Assistant("start over: 1 mood?")>>
    /\ step' = 1
    /\ answers' = EmptyAnswers
    /\ last_recs' = None
    /\ UNCHANGED <<engine_vars, lookup_vars>>

\* lines 484-502
More(text) ==
    /\ Received(text)
    /\ step >= 7
    /\ Lower(Strip(text)) = "more"
    /\ chat_history' = chat_history \o
          <<User(text),
            Assistant(IF last_recs.none \/ Len(last_recs.rows) <= 1 THEN "no more options"
                      ELSE IF ILoc(last_recs.rows, 1, Shown) = <<>> THEN "already given everything"
                      ELSE "more:" \o Lines(ILoc(last_recs.rows, 1, Shown)))>>
    /\ UNCHANGED <<step, answers, last_recs, engine_vars, lookup_vars>>

\* lines 503-508
Other(text) ==
    /\ Received(text)
    /\ step >= 7
    /\ Lower(Strip(text)) \notin {"restart", "more"}
    /\ chat_history' = chat_history \o <<User(text), Assistant("type more or restart")>>
    /\ UNCHANGED <<step, answers, last_recs, engine_vars, lookup_vars>>

ChatInput ==
    \E text \in ChatInputs :
        Answer(text) \/ Recommend(text) \/ Restart(text) \/ More(text) \/ Other(text)

ChatNext == Load \/ ChatInput

ChatSpec == ChatInit /\ [][ChatNext]_vars

(***************************************************************************)
(* Properties of get_recommendations                                       *)
(***************************************************************************)
\* similarity of row id i to the query row of the latest call
ScoreOf(i) == CosineSimilarity(QueryRow(call.title))[i + 1]

LookedUp == call.made /\ Resolves(call.title)

\* C1: the list returned for a title that resolves to row q never holds row q,
\* also when another row has the same features as q.
C1_SelfExcluded ==
    LookedUp => \A k \in 1..Len(result) : result[k].id # QueryRow(call.title)

\* C2: a title whose lowercased form is no key of the title index gets an
\* empty list, whatever n is.
C2_UnknownTitleEmpty ==
    (call.made /\ ~Resolves(call.title)) => result = <<>>

C2_Witness ==
    /\ call.made /\ ~Resolves(call.title) /\ call.n > 0
    /\ Len(movies) >= 2 /\ result = <<>>

\* C3: for a resolved title and n above corpusSize - 1 the list has exactly
\* corpusSize - 1 entries.
C3_ClampUpper ==
    (LookedUp /\ call.n > Len(movies) - 1) => Len(result) = Len(movies) - 1

C3_Witness ==
    /\ LookedUp /\ call.n > Len(movies) - 1
    /\ Len(movies) = MaxRows /\ Len(result) = MaxRows - 1

\* C4: for a resolved title and any n <= 0, negative n included, the list is
\* empty.
C4_ClampLower ==
    (LookedUp /\ call.n <= 0) => result = <<>>

\* C5: the returned rows are in non-increasing order of similarity to the
\* query row, and rows of equal similarity are in ascending row-id order.
C5_Ranked ==
    LookedUp =>
        \A k \in 1..(Len(result) - 1) :
            LET a == ScoreOf(result[k].id)
                b == ScoreOf(result[k + 1].id)
            IN  /\ a.num * b.den >= b.num * a.den
                /\ a.num * b.den = b.num * a.den => result[k].id < result[k + 1].id

C5_Witness ==
    /\ LookedUp /\ Len(result) >= 2
    /\ ScoreOf(result[1].id).num > 0
    /\ ScoreOf(result[1].id).num * ScoreOf(result[2].id).den
          = ScoreOf(result[2].id).num * ScoreOf(result[1].id).den
    /\ \E i \in 0..(Len(movies) - 1) :
          ScoreOf(i).num * ScoreOf(result[1].id).den # ScoreOf(result[1].id).num * ScoreOf(i).den

\* C6: a call with the arguments of the first call of the run returns what
\* the first call returned, whatever calls ran in between.
C6_Deterministic ==
    (call.made /\ call.title = probe.title /\ call.n = probe.n) => result = probe.result

C6_Witness ==
    /\ call.made /\ call.title = probe.title /\ call.n = probe.n
    /\ probe.others /\ Len(result) >= 2

\* C7: when the vectorizer artifact was fit on a corpus whose row count
\* differs from the catalog artifact's, no lookup is ever served.
C7_MismatchNeverServes ==
    tfidf_pkl.fit_rows # Len(movies_pkl) => (phase # "serving" /\ ~call.made)

(***************************************************************************)
(* Properties of the chat session                                          *)
(***************************************************************************)
\* C8: after an input equal to `restart`, at whatever step it was typed, the
\* session is at step 1 with six empty answers, no last_recs and a chat
\* history that holds only the mood question.
C8_RestartStartsOver ==
    user_input = "restart" =>
        /\ step = 1
        /\ answers = EmptyAnswers
        /\ last_recs = None
        /\ Len(chat_history) = 1
        /\ chat_history[1].role = "assistant"
        /\ chat_history[1].content \in {"greeting: 1 mood?", "start over: 1 mood?"}

\* position in chat_history of the reply to the sixth answer
ReplyToTone == 2 * Len(AnswerKeys) + 1

\* C9: when the era/tone filter removes every row of a non-empty raw list,
\* last_recs and the recommendation shown are the first (up to 6) rows of
\* the raw list.
C9_FilterFallback ==
    ( /\ step >= 7
      /\ result # <<>>
      /\ filter_recommendations_by_period_and_tone(result, answers.period, answers.tone) = <<>> )
    => /\ last_recs = [none |-> FALSE, rows |-> SubSeq(result, 1, IF Len(result) < 6 THEN Len(result) ELSE 6)]
       /\ chat_history[ReplyToTone] = Assistant(RecommendMessage(result[1]))

C9_Witness ==
    /\ step >= 7
    /\ Len(result) > 6
    /\ filter_recommendations_by_period_and_tone(result, answers.period, answers.tone) = <<>>
    /\ ~last_recs.none /\ Len(last_recs.rows) = 6

\* C10: an input at step k in 1..6 becomes the k-th answer (mood, genre,
\* pace, liked, period, tone) and moves step to k + 1; get_recommendations
\* runs only in the move from step 6 to step 7; last_recs is None while
\* step <= 6.
C10_Ordering ==
    /\ [](step <= 6 => last_recs = None)
    /\ [][ /\ (chat_history' # chat_history /\ step \in 1..6) =>
                /\ step' = step + 1
                /\ answers' = [answers EXCEPT
                       ![<<"mood", "genre", "pace", "liked", "period", "tone">>[step]] = user_input']
           /\ (call' # call \/ result' # result) => (step = 6 /\ step' = 7) ]_vars

C10_Witness ==
    /\ step = 7
    /\ \A k \in 1..6 : answers[AnswerKeys[k]] # ""
    /\ answers.pace # answers.liked
    /\ call.made /\ ~last_recs.none /\ last_recs.rows # <<>>

\* every label of the title index belongs to one row
DistinctLowerTitles == \A label \in DOMAIN indices : Len(indices[label]) = 1

\* C11: with at least two rows and distinct lowercased titles, the seed
\* title of a conversation that gave its sixth answer resolves in the title
\* index, last_recs holds 1 to 6 rows and the reply to the sixth answer is
\* not the "couldn't find anything" message.
C11_SeedResolves ==
    (step >= 7 /\ Len(movies) >= 2 /\ DistinctLowerTitles) =>
        /\ call.made
        /\ Lower(call.title) \in DOMAIN indices
        /\ ~last_recs.none
        /\ Len(last_recs.rows) \in 1..6
        /\ chat_history[ReplyToTone].role = "assistant"
        /\ chat_history[ReplyToTone].content # "nothing found"

C11_Witness ==
    /\ step >= 7 /\ Len(movies) >= 2 /\ DistinctLowerTitles
    /\ call.made /\ Len(result) > 6
    /\ ~last_recs.none /\ Len(last_recs.rows) = 1
    /\ chat_history[ReplyToTone] = Assistant(RecommendMessage(last_recs.rows[1]))

====
